---- MODULE Spec2Model ----
(***************************************************************************)
(* Rate-limited poller of GiordanoArman/edrv-test.                         *)
(*                                                                         *)
(* The process (main) loads db.json, waits the time the two persisted     *)
(* dates require, sends a GET request, records the date of the response,  *)
(* and loops.  Dates are milliseconds; an absent date (JSON null) is the  *)
(* empty tuple and a present date t is the tuple <<t>>.                   *)
(***************************************************************************)
EXTENDS Integers, Sequences, FiniteSets, TLC

(***************************************************************************)
(* Bounds of the exploration.                                              *)
(***************************************************************************)
MaxQueries == 2
MaxCrashes == 1

(***************************************************************************)
(* File constants.                                                         *)
(***************************************************************************)
API_MIN_INTERVAL_MS == 1000 * 60 * 5

\* the tolerance with the division truncated to an integer
CPU_TOLERANCE_MS_truncated == (API_MIN_INTERVAL_MS \div 1000000) * 40

\* (API_MIN_INTERVAL_MS / 1000000) * 40 in IEEE doubles is 0.3 * 40 = 12
\* exactly; the product is taken first here so that integer division
\* gives the same value.
CPU_TOLERANCE_MS == (API_MIN_INTERVAL_MS * 40) \div 1000000

WAIT_TIME_MS == API_MIN_INTERVAL_MS + CPU_TOLERANCE_MS

MAX_QUERY_RECEPTION_DELAY_MS == 1000 * 60

null == << >>

DEFAULT_DB == [lastAPIResponseTime |-> null, lastAPIQueryTime |-> null]

\* what the file db.json holds: nothing, unparsable text, or a record
NoFile == [kind |-> "absent", body |-> DEFAULT_DB]
BadFile == [kind |-> "corrupt", body |-> DEFAULT_DB]
File(body) == [kind |-> "ok", body |-> body]

\* responses the transport may deliver: res.data.evses[0].status is a
\* string (possibly empty), is not a string, or evses has no first element
Evse(t, v) == [data |-> [evses |-> <<[status |-> [t |-> t, v |-> v]]>>]]
NoEvse == [data |-> [evses |-> << >>]]
Responses == {Evse("string", "AVAILABLE"), Evse("string", "CHARGING"),
              Evse("string", ""), Evse("number", "7"), NoEvse}

\* milliseconds between the request and the API's check, and between the
\* check and the response
Latencies == {0, 1000}

\* milliseconds between the last event of a run and the start of the next
\* run: shorter than the waits, and longer
Downtimes == {1000, 100000, 400000}

\* milliseconds by which a timer fires late
Lateness == {0, 5}

VARIABLES
  now,          \* Date.now()
  pc,           \* where main is suspended: "off" when no process runs
  lastResponse, \* main's lastResponse
  lastQuery,    \* main's lastQuery
  chargingStationStatus,
  wakeAt,       \* date at which the pending time() promise resolves
  file,         \* content of db.json
  writes,       \* bodies of the fs.writeFile calls still in progress
  notified,     \* statuses printed by main's console.log, oldest first
  received,     \* res of the last response axios.get resolved with
  waited,       \* milliseconds the last waitBeforePoll waited for
  event,        \* the handler of main that ran last
  dbCorrupt,    \* db.corrupt of this run
  sleeps,       \* durations of the time() calls of the corrupt branch, this run
  bootAt,       \* date this run started
  sentAt,       \* date the last query of the installation was sent
  outcomeAt,    \* date its response or transport error was recorded
  prevSentAt,   \* sentAt of the query before it
  prevOutcomeAt,\* outcomeAt of the query before it
  runSent,      \* queries sent by this run
  processedAt,  \* date the API checked the last query of this run
  prevProcessedAt, \* date the API checked a query of this run before that
  queries, crashes

vars == <<now, pc, lastResponse, lastQuery, chargingStationStatus, wakeAt,
          file, writes, notified, received, waited, event, dbCorrupt,
          sleeps,
          bootAt, sentAt, outcomeAt, prevSentAt, prevOutcomeAt, runSent,
          processedAt, prevProcessedAt, queries, crashes>>

mainVars == <<pc, lastResponse, lastQuery, chargingStationStatus, wakeAt,
              waited, dbCorrupt, sleeps, bootAt, runSent>>
diskVars == <<file, writes>>
queryVars == <<sentAt, outcomeAt, prevSentAt, prevOutcomeAt, queries>>
apiVars == <<processedAt, prevProcessedAt>>

isNumber(value) == value # null

\* necessaryTime without its early return
necessaryTime_noReturn(waitStartDate, timeToWait, date) ==
  LET timePassed == date - waitStartDate
  IN timeToWait - timePassed

\* milliseconds necessaryTime hands to time(); 0 when it returns at once
necessaryTime(waitStartDate, timeToWait, date) ==
  LET timePassed == date - waitStartDate
  IN IF timePassed >= timeToWait THEN 0 ELSE timeToWait - timePassed

\* waitBeforePoll with the regular wait counted from the query, not from
\* the response
waitBeforePoll_fromQuery(lr, lq, date) ==
  IF isNumber(lq)
  THEN IF isNumber(lr)
       THEN IF lr[1] < lq[1]
            THEN necessaryTime(lq[1],
                   MAX_QUERY_RECEPTION_DELAY_MS + WAIT_TIME_MS, date)
            ELSE necessaryTime(lq[1], WAIT_TIME_MS, date)
       ELSE necessaryTime(lq[1],
              MAX_QUERY_RECEPTION_DELAY_MS + WAIT_TIME_MS, date)
  ELSE 0

\* waitBeforePoll that waits on a response date alone
waitBeforePoll_responseOnly(lr, lq, date) ==
  IF isNumber(lq)
  THEN IF isNumber(lr)
       THEN IF lr[1] < lq[1]
            THEN necessaryTime(lq[1],
                   MAX_QUERY_RECEPTION_DELAY_MS + WAIT_TIME_MS, date)
            ELSE necessaryTime(lr[1], WAIT_TIME_MS, date)
       ELSE necessaryTime(lq[1],
              MAX_QUERY_RECEPTION_DELAY_MS + WAIT_TIME_MS, date)
  ELSE IF isNumber(lr) THEN necessaryTime(lr[1], WAIT_TIME_MS, date) ELSE 0

\* waitBeforePoll that takes a response of the date of the query for a
\* missing one
waitBeforePoll_strict(lr, lq, date) ==
  IF isNumber(lq)
  THEN IF isNumber(lr)
       THEN IF lr[1] <= lq[1]
            THEN necessaryTime(lq[1],
                   MAX_QUERY_RECEPTION_DELAY_MS + WAIT_TIME_MS, date)
            ELSE necessaryTime(lr[1], WAIT_TIME_MS, date)
       ELSE necessaryTime(lq[1],
              MAX_QUERY_RECEPTION_DELAY_MS + WAIT_TIME_MS, date)
  ELSE 0

\* waitBeforePoll that forgets the reception delay when no response was
\* ever received
waitBeforePoll_noDelay(lr, lq, date) ==
  IF isNumber(lq)
  THEN IF isNumber(lr)
       THEN IF lr[1] < lq[1]
            THEN necessaryTime(lq[1],
                   MAX_QUERY_RECEPTION_DELAY_MS + WAIT_TIME_MS, date)
            ELSE necessaryTime(lr[1], WAIT_TIME_MS, date)
       ELSE necessaryTime(lq[1], WAIT_TIME_MS, date)
  ELSE 0

\* waitBeforePoll with its comparison of the two dates inverted
waitBeforePoll_inverted(lr, lq, date) ==
  IF isNumber(lq)
  THEN IF isNumber(lr)
       THEN IF lr[1] > lq[1]
            THEN necessaryTime(lq[1],
                   MAX_QUERY_RECEPTION_DELAY_MS + WAIT_TIME_MS, date)
            ELSE necessaryTime(lr[1], WAIT_TIME_MS, date)
       ELSE necessaryTime(lq[1],
              MAX_QUERY_RECEPTION_DELAY_MS + WAIT_TIME_MS, date)
  ELSE 0

\* milliseconds waitBeforePoll waits when called at date
waitBeforePoll(lr, lq, date) ==
  IF isNumber(lq)
  THEN IF isNumber(lr)
       THEN IF lr[1] < lq[1]
            THEN necessaryTime(lq[1],
                   MAX_QUERY_RECEPTION_DELAY_MS + WAIT_TIME_MS, date)
            ELSE necessaryTime(lr[1], WAIT_TIME_MS, date)
       ELSE necessaryTime(lq[1],
              MAX_QUERY_RECEPTION_DELAY_MS + WAIT_TIME_MS, date)
  ELSE 0

\* getDB that takes a file it cannot parse for a missing one
getDB_notCorrupt(f) ==
  IF f.kind = "ok"
  THEN [lastAPIResponseTime |-> f.body.lastAPIResponseTime,
        lastAPIQueryTime |-> f.body.lastAPIQueryTime, corrupt |-> FALSE]
  ELSE [lastAPIResponseTime |-> DEFAULT_DB.lastAPIResponseTime,
        lastAPIQueryTime |-> DEFAULT_DB.lastAPIQueryTime, corrupt |-> FALSE]

\* getDB that takes a missing file for one it cannot parse
getDB_missingCorrupt(f) ==
  IF f.kind = "ok"
  THEN [lastAPIResponseTime |-> f.body.lastAPIResponseTime,
        lastAPIQueryTime |-> f.body.lastAPIQueryTime, corrupt |-> FALSE]
  ELSE [lastAPIResponseTime |-> DEFAULT_DB.lastAPIResponseTime,
        lastAPIQueryTime |-> DEFAULT_DB.lastAPIQueryTime, corrupt |-> TRUE]

\* what require(dbPath) makes of the file
getDB(f) ==
  IF f.kind = "ok"
  THEN [lastAPIResponseTime |-> f.body.lastAPIResponseTime,
        lastAPIQueryTime |-> f.body.lastAPIQueryTime, corrupt |-> FALSE]
  ELSE IF f.kind = "absent"
  THEN [lastAPIResponseTime |-> DEFAULT_DB.lastAPIResponseTime,
        lastAPIQueryTime |-> DEFAULT_DB.lastAPIQueryTime, corrupt |-> FALSE]
  ELSE [lastAPIResponseTime |-> DEFAULT_DB.lastAPIResponseTime,
        lastAPIQueryTime |-> DEFAULT_DB.lastAPIQueryTime, corrupt |-> TRUE]

\* body handed to fs.writeFile
setDB(lr, lq) == [lastAPIResponseTime |-> lr, lastAPIQueryTime |-> lq]

getStatus(res) ==
  IF /\ "data" \in DOMAIN res
     /\ "evses" \in DOMAIN res.data
     /\ Len(res.data.evses) >= 1
     /\ res.data.evses[1].status.t = "string"
  THEN <<res.data.evses[1].status.v>>
  ELSE null

toLowerCase(s) ==
  CASE s = "AVAILABLE" -> "available"
    [] s = "CHARGING" -> "charging"
    [] OTHER -> s

Init ==
  /\ now = 0
  /\ pc = "off"
  /\ lastResponse = null
  /\ lastQuery = null
  /\ chargingStationStatus = null
  /\ wakeAt = 0
  /\ file = NoFile
  /\ writes = {}
  /\ notified = << >>
  /\ received = NoEvse
  /\ waited = null
  /\ event = "init"
  /\ dbCorrupt = FALSE
  /\ sleeps = << >>
  /\ bootAt = 0
  /\ sentAt = null
  /\ outcomeAt = null
  /\ prevSentAt = null
  /\ prevOutcomeAt = null
  /\ runSent = 0
  /\ processedAt = null
  /\ prevProcessedAt = null
  /\ queries = 0
  /\ crashes = 0

\* a main that takes the response date for the query date
SendQuery_responseDate(lr, date, pend, n, out) ==
  /\ queries < MaxQueries
  /\ lastQuery' = lr
  /\ writes' = pend \cup {setDB(lr, lr)}
  /\ pc' = "pending"
  /\ wakeAt' = wakeAt
  /\ prevSentAt' = sentAt
  /\ prevOutcomeAt' = out
  /\ sentAt' = <<date>>
  /\ outcomeAt' = null
  /\ runSent' = n + 1
  /\ queries' = queries + 1

\* a main that does not store the query date before the call
SendQuery_noStore(lr, date, pend, n, out) ==
  /\ queries < MaxQueries
  /\ lastQuery' = <<date>>
  /\ writes' = pend
  /\ pc' = "pending"
  /\ wakeAt' = wakeAt
  /\ prevSentAt' = sentAt
  /\ prevOutcomeAt' = out
  /\ sentAt' = <<date>>
  /\ outcomeAt' = null
  /\ runSent' = n + 1
  /\ queries' = queries + 1

\* main, lines 59-64: the query date is taken, its store is started and the
\* request is handed to axios; main is then suspended on the response.
\* pend are the writes in progress, n the queries this run has sent and
\* out the date the outcome of the last query was recorded.
SendQuery(lr, date, pend, n, out) ==
  /\ queries < MaxQueries
  /\ lastQuery' = <<date>>
  /\ writes' = pend \cup {setDB(lr, <<date>>)}
  /\ pc' = "pending"
  /\ wakeAt' = wakeAt
  /\ prevSentAt' = sentAt
  /\ prevOutcomeAt' = out
  /\ sentAt' = <<date>>
  /\ outcomeAt' = null
  /\ runSent' = n + 1
  /\ queries' = queries + 1

\* a loop that calls the API without waiting for the computed time
Iterate_noWait(lr, lq, date, pend, n, out) ==
  /\ waited' = <<0>>
  /\ SendQuery(lr, date, pend, n, out)

\* main, the loop from waitBeforePoll to its next suspension: on the timer
\* of necessaryTime, or, when no wait is needed, on the response
Iterate(lr, lq, date, pend, n, out) ==
  LET w == waitBeforePoll(lr, lq, date)
  IN /\ waited' = <<w>>
     /\ IF w > 0
        THEN /\ pc' = "sleeping"
             /\ wakeAt' = date + w
             /\ lastQuery' = lq
             /\ writes' = pend
             /\ runSent' = n
             /\ outcomeAt' = out
             /\ UNCHANGED <<sentAt, prevSentAt, prevOutcomeAt, queries>>
        ELSE SendQuery(lr, date, pend, n, out)

\* a start that finds the status the last run observed
Boot_keepStatus(d) ==
  /\ pc = "off"
  /\ now' = now + d
  /\ LET db == getDB(file)
     IN /\ dbCorrupt' = db.corrupt
        /\ bootAt' = now'
        /\ chargingStationStatus' = chargingStationStatus
        /\ IF db.corrupt
           THEN /\ pc' = "corruptSleep"
                /\ wakeAt' = now' + MAX_QUERY_RECEPTION_DELAY_MS + WAIT_TIME_MS
                /\ sleeps' = <<MAX_QUERY_RECEPTION_DELAY_MS + WAIT_TIME_MS>>
                /\ lastResponse' = db.lastAPIResponseTime
                /\ lastQuery' = db.lastAPIQueryTime
                /\ waited' = null
                /\ runSent' = 0
                /\ UNCHANGED writes
                /\ UNCHANGED queryVars
           ELSE /\ sleeps' = << >>
                /\ lastResponse' = db.lastAPIResponseTime
                /\ Iterate(db.lastAPIResponseTime, db.lastAPIQueryTime, now',
                           writes, 0, outcomeAt)
  /\ event' = "boot"
  /\ processedAt' = null
  /\ prevProcessedAt' = null
  /\ UNCHANGED <<file, notified, received, crashes>>

\* the process is started, d milliseconds after the last event: main runs
\* to its first suspension
Boot(d) ==
  /\ pc = "off"
  /\ now' = now + d
  /\ LET db == getDB(file)
     IN /\ dbCorrupt' = db.corrupt
        /\ bootAt' = now'
        /\ chargingStationStatus' = null
        /\ IF db.corrupt
           THEN /\ pc' = "corruptSleep"
                /\ wakeAt' = now' + MAX_QUERY_RECEPTION_DELAY_MS + WAIT_TIME_MS
                /\ sleeps' = <<MAX_QUERY_RECEPTION_DELAY_MS + WAIT_TIME_MS>>
                /\ lastResponse' = db.lastAPIResponseTime
                /\ lastQuery' = db.lastAPIQueryTime
                /\ waited' = null
                /\ runSent' = 0
                /\ UNCHANGED writes
                /\ UNCHANGED queryVars
           ELSE /\ sleeps' = << >>
                /\ lastResponse' = db.lastAPIResponseTime
                /\ Iterate(db.lastAPIResponseTime, db.lastAPIQueryTime, now',
                           writes, 0, outcomeAt)
  /\ event' = "boot"
  /\ processedAt' = null
  /\ prevProcessedAt' = null
  /\ UNCHANGED <<file, notified, received, crashes>>

\* the timer of the corrupt branch fires: main enters the loop with the
\* dates of the default database
CorruptWake(late) ==
  /\ pc = "corruptSleep"
  /\ now' = wakeAt + late
  /\ Iterate(lastResponse, lastQuery, now', writes, runSent, outcomeAt)
  /\ event' = "corruptWake"
  /\ UNCHANGED <<lastResponse, chargingStationStatus, file, notified, received,
                 dbCorrupt, sleeps, bootAt, crashes>>
  /\ UNCHANGED apiVars

\* a timer whose promise is never resolved: main stays in its wait
Wake_unresolved(late) ==
  /\ pc = "sleeping"
  /\ UNCHANGED vars

\* the timer of necessaryTime fires: waitBeforePoll returns and main sends
Wake(late) ==
  /\ pc = "sleeping"
  /\ now' = wakeAt + late
  /\ SendQuery(lastResponse, now', writes, runSent, outcomeAt)
  /\ event' = "wake"
  /\ UNCHANGED <<lastResponse, chargingStationStatus, file, notified, received, waited,
                 dbCorrupt, sleeps, bootAt, crashes>>
  /\ UNCHANGED apiVars

\* a main that prints every string status, whether it changed or not
Response_always(res, d) ==
  /\ pc = "pending"
  /\ now' = now + d
  /\ lastResponse' = <<now'>>
  /\ LET status == getStatus(res)
     IN IF status # null
        THEN /\ notified' = Append(notified, toLowerCase(status[1]))
             /\ chargingStationStatus' = status
        ELSE UNCHANGED <<notified, chargingStationStatus>>
  /\ Iterate(<<now'>>, lastQuery, now',
             writes \cup {setDB(<<now'>>, lastQuery)}, runSent, <<now'>>)
  /\ received' = res
  /\ event' = "response"
  /\ UNCHANGED <<file, dbCorrupt, sleeps, bootAt, crashes>>
  /\ UNCHANGED apiVars

\* a main that does not write the response time of a response
Response_noDate(res, d) ==
  /\ pc = "pending"
  /\ now' = now + d
  /\ lastResponse' = lastResponse
  /\ LET status == getStatus(res)
     IN IF status # null /\ status # chargingStationStatus
        THEN /\ notified' = Append(notified, toLowerCase(status[1]))
             /\ chargingStationStatus' = status
        ELSE UNCHANGED <<notified, chargingStationStatus>>
  /\ Iterate(lastResponse, lastQuery, now',
             writes \cup {setDB(lastResponse, lastQuery)}, runSent, <<now'>>)
  /\ received' = res
  /\ event' = "response"
  /\ UNCHANGED <<file, dbCorrupt, sleeps, bootAt, crashes>>
  /\ UNCHANGED apiVars

\* axios.get resolves with res, d milliseconds after the last event
Response(res, d) ==
  /\ pc = "pending"
  /\ now' = now + d
  /\ lastResponse' = <<now'>>
  /\ LET status == getStatus(res)
     IN IF status # null /\ status # chargingStationStatus
        THEN /\ notified' = Append(notified, toLowerCase(status[1]))
             /\ chargingStationStatus' = status
        ELSE UNCHANGED <<notified, chargingStationStatus>>
  /\ Iterate(<<now'>>, lastQuery, now',
             writes \cup {setDB(<<now'>>, lastQuery)}, runSent, <<now'>>)
  /\ received' = res
  /\ event' = "response"
  /\ UNCHANGED <<file, dbCorrupt, sleeps, bootAt, crashes>>
  /\ UNCHANGED apiVars

\* a catch block that goes to the next iteration without the response date
TransportError_forget(d) ==
  /\ pc = "pending"
  /\ now' = now + d
  /\ lastResponse' = lastResponse
  /\ Iterate(lastResponse, lastQuery, now', writes, runSent, <<now'>>)
  /\ event' = "transportError"
  /\ UNCHANGED <<chargingStationStatus, file, notified, received, dbCorrupt, sleeps,
                 bootAt, crashes>>
  /\ UNCHANGED apiVars

\* a catch block that stores the date of the error without assigning it to
\* lastResponse
TransportError_storeOnly(d) ==
  /\ pc = "pending"
  /\ now' = now + d
  /\ lastResponse' = lastResponse
  /\ Iterate(lastResponse, lastQuery, now',
             writes \cup {setDB(<<now'>>, lastQuery)}, runSent, <<now'>>)
  /\ event' = "transportError"
  /\ UNCHANGED <<chargingStationStatus, file, notified, received, dbCorrupt,
                 sleeps, bootAt, crashes>>
  /\ UNCHANGED apiVars

\* axios.get rejects with an error whose isAxiosError is true
TransportError(d) ==
  /\ pc = "pending"
  /\ now' = now + d
  /\ lastResponse' = <<now'>>
  /\ Iterate(<<now'>>, lastQuery, now',
             writes \cup {setDB(<<now'>>, lastQuery)}, runSent, <<now'>>)
  /\ event' = "transportError"
  /\ UNCHANGED <<chargingStationStatus, file, notified, received, dbCorrupt, sleeps,
                 bootAt, crashes>>
  /\ UNCHANGED apiVars

\* a catch block that treats every error as it treats an axios error
OtherError_caught ==
  /\ pc = "pending"
  /\ now' = now
  /\ lastResponse' = <<now'>>
  /\ Iterate(<<now'>>, lastQuery, now',
             writes \cup {setDB(<<now'>>, lastQuery)}, runSent, <<now'>>)
  /\ event' = "otherError"
  /\ UNCHANGED <<chargingStationStatus, file, notified, received, dbCorrupt,
                 sleeps, bootAt, crashes>>
  /\ UNCHANGED apiVars

\* axios.get rejects with any other error: main rethrows it
OtherError ==
  /\ pc = "pending"
  /\ pc' = "terminated"
  /\ event' = "otherError"
  /\ UNCHANGED <<now, lastResponse, lastQuery, chargingStationStatus, wakeAt,
                 waited, dbCorrupt, sleeps, bootAt, runSent, notified, received,
                 crashes>>
  /\ UNCHANGED diskVars
  /\ UNCHANGED queryVars
  /\ UNCHANGED apiVars

\* the API checks the query in flight against its minimum interval, some
\* milliseconds after it was sent
ApiProcess ==
  /\ pc = "pending"
  /\ outcomeAt = null
  /\ IF processedAt = null THEN TRUE ELSE processedAt[1] < sentAt[1]
  /\ \E d \in Latencies : now' = now + d
  /\ processedAt' = <<now'>>
  /\ prevProcessedAt' = processedAt
  /\ UNCHANGED event
  /\ UNCHANGED <<notified, received, crashes>>
  /\ UNCHANGED mainVars
  /\ UNCHANGED diskVars
  /\ UNCHANGED queryVars

\* fs.writeFile opens the file truncating it, writes the body from the
\* start and closes it; main does not wait for one write before it starts
\* the next. The body w, with null for the response date, is shorter than a
\* body with a date: when the file already holds the body of a later write
\* with a date, the bytes of w may land on top of it and leave its tail
\* behind them.
Torn(w) ==
  /\ w.lastAPIResponseTime = null
  /\ file.kind = "ok"
  /\ file.body.lastAPIResponseTime # null

\* a fs.writeFile in progress completes: the file holds its body, or, when
\* it raced with a later write, what the two left
WriteDone ==
  /\ \E w \in writes :
       /\ file' \in IF Torn(w) THEN {File(w), BadFile} ELSE {File(w)}
       /\ writes' = writes \ {w}
  /\ UNCHANGED event
  /\ UNCHANGED <<notified, received, crashes>>
  /\ UNCHANGED mainVars
  /\ UNCHANGED queryVars
  /\ UNCHANGED now
  /\ UNCHANGED apiVars

\* a fs.writeFile in progress fails, before or after it truncated the file;
\* noAction receives the error and main goes on
WriteFail ==
  /\ \E w \in writes :
       /\ file' \in {file, BadFile}
       /\ writes' = writes \ {w}
  /\ UNCHANGED event
  /\ UNCHANGED <<notified, received, crashes>>
  /\ UNCHANGED mainVars
  /\ UNCHANGED queryVars
  /\ UNCHANGED now
  /\ UNCHANGED apiVars

\* the process is killed; a write in progress is lost, and may leave the
\* file truncated
Crash ==
  /\ pc # "off"
  /\ crashes < MaxCrashes
  /\ pc' = "off"
  /\ crashes' = crashes + 1
  /\ writes' = {}
  /\ file' \in IF writes = {} THEN {file} ELSE {file, BadFile}
  /\ UNCHANGED event
  /\ UNCHANGED <<lastResponse, lastQuery, chargingStationStatus, wakeAt,
                 waited, dbCorrupt, sleeps, bootAt, runSent, notified, received>>
  /\ UNCHANGED queryVars
  /\ UNCHANGED now
  /\ UNCHANGED apiVars

(***************************************************************************)
(* Spec: an installation from its first boot, with crashes and restarts.   *)
(***************************************************************************)
Next ==
  \/ \E d \in IF event = "init" THEN {0} ELSE Downtimes : Boot(d)
  \/ \E late \in Lateness : CorruptWake(late)
  \/ \E late \in Lateness : Wake(late)
  \/ \E res \in Responses, d \in Latencies : Response(res, d)
  \/ \E d \in Latencies : TransportError(d)
  \/ OtherError
  \/ WriteDone
  \/ WriteFail
  \/ Crash

Spec == Init /\ [][Next]_vars

(***************************************************************************)
(* SpecRun: one run of the process that is never killed and whose every    *)
(* query gets a response or a transport error, started on a file an        *)
(* earlier run may have left.  The callback of fs.writeFile is noAction,   *)
(* so the run does not depend on the fate of its writes: writes holds      *)
(* every write the run has started.                                        *)
(***************************************************************************)
LeftFiles ==
  {NoFile, BadFile, File(setDB(null, <<1000>>)),
   File(setDB(<<2000>>, <<1000>>)), File(setDB(<<2000>>, <<400000>>))}

InitRun ==
  /\ now = 402000
  /\ pc = "off"
  /\ lastResponse = null
  /\ lastQuery = null
  /\ chargingStationStatus = null
  /\ wakeAt = 0
  /\ file \in LeftFiles
  /\ writes = {}
  /\ notified = << >>
  /\ received = NoEvse
  /\ waited = null
  /\ event = "init"
  /\ dbCorrupt = FALSE
  /\ sleeps = << >>
  /\ bootAt = 0
  /\ sentAt = null
  /\ outcomeAt = null
  /\ prevSentAt = null
  /\ prevOutcomeAt = null
  /\ runSent = 0
  /\ processedAt = null
  /\ prevProcessedAt = null
  /\ queries = 0
  /\ crashes = 0

NextRun ==
  \/ \E d \in IF event = "init" THEN {0} ELSE Downtimes : Boot(d)
  \/ \E late \in Lateness : CorruptWake(late)
  \/ \E late \in Lateness : Wake(late)
  \/ \E res \in Responses, d \in Latencies : Response(res, d)
  \/ \E d \in Latencies : TransportError(d)
  \/ ApiProcess

SpecRun == InitRun /\ [][NextRun]_vars

(***************************************************************************)
(* SpecStore: the runs of SpecRun, with the writes that setDB starts       *)
(* completing, each at any moment after its start and in any order.        *)
(***************************************************************************)
NextStore == NextRun \/ WriteDone

SpecStore == InitRun /\ [][NextStore]_vars

(***************************************************************************)
(* SpecLive: the runs of SpecRun in which what main awaits arrives: a      *)
(* started process runs main, a timer set by time fires, and axios.get     *)
(* settles with a response or an axios error.                              *)
(***************************************************************************)
Settles ==
  \/ \E res \in Responses, d \in Latencies : Response(res, d)
  \/ \E d \in Latencies : TransportError(d)

Awaited ==
  /\ WF_vars(\E d \in IF event = "init" THEN {0} ELSE Downtimes : Boot(d))
  /\ WF_vars(\E late \in Lateness : CorruptWake(late))
  /\ WF_vars(\E late \in Lateness : Wake(late))
  /\ WF_vars(Settles)

SpecLive == InitRun /\ [][NextRun]_vars /\ Awaited

(***************************************************************************)
(* SpecWait: waitBeforePoll applied to every combination of dates of a     *)
(* grid around the two waits, the date of the call included, beside the    *)
(* runs of SpecRun, where main applies it.                                 *)
(***************************************************************************)
Epoch == 1000000

Dates == {Epoch + d : d \in {0, 1000, 2000}}

CallDates ==
  {Epoch + d : d \in {0 - 1000, 0, 1000, 101000, WAIT_TIME_MS - 1,
                      WAIT_TIME_MS, WAIT_TIME_MS + 1, WAIT_TIME_MS + 1000,
                      MAX_QUERY_RECEPTION_DELAY_MS + WAIT_TIME_MS - 1,
                      MAX_QUERY_RECEPTION_DELAY_MS + WAIT_TIME_MS,
                      MAX_QUERY_RECEPTION_DELAY_MS + WAIT_TIME_MS + 1,
                      400000, 172800000}}

InitWait ==
  /\ now \in CallDates
  /\ pc = "call"
  /\ lastResponse \in {null} \cup {<<t>> : t \in Dates}
  /\ lastQuery \in {null} \cup {<<t>> : t \in Dates}
  /\ chargingStationStatus = null
  /\ wakeAt = 0
  /\ file = NoFile
  /\ writes = {}
  /\ notified = << >>
  /\ received = NoEvse
  /\ waited = null
  /\ event = "init"
  /\ dbCorrupt = FALSE
  /\ sleeps = << >>
  /\ bootAt = 0
  /\ sentAt = null
  /\ outcomeAt = null
  /\ prevSentAt = null
  /\ prevOutcomeAt = null
  /\ runSent = 0
  /\ processedAt = null
  /\ prevProcessedAt = null
  /\ queries = 0
  /\ crashes = 0

\* waitBeforePoll(lastResponse, lastQuery) is called at date now
CallWait ==
  /\ pc = "call"
  /\ pc' = "returned"
  /\ waited' = <<waitBeforePoll(lastResponse, lastQuery, now)>>
  /\ UNCHANGED <<now, lastResponse, lastQuery, chargingStationStatus, wakeAt,
                 file, writes, notified, received, event, dbCorrupt, sleeps, bootAt,
                 sentAt, outcomeAt, prevSentAt, prevOutcomeAt, runSent,
                 processedAt, prevProcessedAt, queries, crashes>>

NextWait == CallWait

SpecWait == (InitWait \/ InitRun) /\ [][NextWait \/ NextRun]_vars

(***************************************************************************)
(* Claims.                                                                 *)
(***************************************************************************)

\* C1: in a run that is never killed and whose every query gets a response
\* or a transport error, a query is sent no earlier than WAIT_TIME_MS after
\* the outcome of the query before it was recorded, and two queries the API
\* checked between their request and their outcome were checked at least
\* WAIT_TIME_MS apart.
C1_MinInterval ==
  /\ runSent >= 2 =>
       /\ prevOutcomeAt # null
       /\ sentAt[1] - prevOutcomeAt[1] >= WAIT_TIME_MS
  /\ (processedAt # null /\ prevProcessedAt # null) =>
       processedAt[1] - prevProcessedAt[1] >= WAIT_TIME_MS

\* two queries of one run, each checked by the API, the second checked
\* exactly WAIT_TIME_MS after the first
C1_Witness ==
  /\ runSent >= 2
  /\ processedAt # null
  /\ prevProcessedAt # null
  /\ processedAt[1] - prevProcessedAt[1] = WAIT_TIME_MS

\* C2: the first query of a run started after a crash is sent at least
\* MAX_QUERY_RECEPTION_DELAY_MS + WAIT_TIME_MS after the query before it
\* when the outcome of that query was not recorded, and at least
\* WAIT_TIME_MS after that recorded outcome otherwise.
C2_AcrossCrashes ==
  (/\ runSent = 1
   /\ prevSentAt # null
   /\ event \in {"boot", "corruptWake", "wake"}) =>
    IF prevOutcomeAt = null
    THEN sentAt[1] - prevSentAt[1] >=
           MAX_QUERY_RECEPTION_DELAY_MS + WAIT_TIME_MS
    ELSE sentAt[1] - prevOutcomeAt[1] >= WAIT_TIME_MS

\* C3: when a query is handed to the transport, db.json already holds the
\* date of that query.
C3_PersistedBeforeCall ==
  [][queries' = queries + 1 =>
       /\ file'.kind = "ok"
       /\ file'.body.lastAPIQueryTime = lastQuery']_vars

\* C4: waitBeforePoll waits 0 ms when there is no query date, whatever the
\* response date and the date of the call; a first boot without db.json
\* sends its first query at the date of the boot.
C4_NoQueryNoWait ==
  /\ (pc = "returned" /\ lastQuery = null) => waited = <<0>>
  /\ (event = "boot" /\ file.kind = "absent") =>
       /\ waited = <<0>>
       /\ pc = "pending"
       /\ lastQuery = <<bootAt>>
       /\ sentAt = <<bootAt>>

\* a call without a query date and with a response date
C4_Witness ==
  /\ pc = "returned"
  /\ lastQuery = null
  /\ lastResponse # null
  /\ waited = <<0>>

\* C5: with a response date not before the query date, the wait is 0 once
\* WAIT_TIME_MS have passed since the response and is what is left of
\* WAIT_TIME_MS otherwise; the query date plays no role.
C5_FastPath ==
  (/\ pc = "returned"
   /\ lastQuery # null
   /\ lastResponse # null
   /\ lastResponse[1] >= lastQuery[1]) =>
    waited = <<IF now - lastResponse[1] >= WAIT_TIME_MS
               THEN 0
               ELSE WAIT_TIME_MS - (now - lastResponse[1])>>

\* a response of the very date of its query, with part of the wait left
C5_Witness ==
  /\ pc = "returned"
  /\ lastQuery # null
  /\ lastResponse = lastQuery
  /\ waited[1] > 0
  /\ waited[1] < WAIT_TIME_MS

NoResponseToLastQuery ==
  /\ lastQuery # null
  /\ IF lastResponse = null THEN TRUE ELSE lastResponse[1] < lastQuery[1]

\* C6: with a query date and a response date that is missing or before it,
\* the wait is 0 once MAX_QUERY_RECEPTION_DELAY_MS + WAIT_TIME_MS have
\* passed since the query and is what is left of that time otherwise.
C6_ConservativePath ==
  (pc = "returned" /\ NoResponseToLastQuery) =>
    waited = <<IF now - lastQuery[1] >=
                    MAX_QUERY_RECEPTION_DELAY_MS + WAIT_TIME_MS
               THEN 0
               ELSE MAX_QUERY_RECEPTION_DELAY_MS + WAIT_TIME_MS
                      - (now - lastQuery[1])>>

\* a response older than the query, with part of the wait left
C6_Witness ==
  /\ pc = "returned"
  /\ NoResponseToLastQuery
  /\ lastResponse # null
  /\ waited[1] > 0
  /\ waited[1] < MAX_QUERY_RECEPTION_DELAY_MS + WAIT_TIME_MS

\* C7: the wait is never negative.
C7_NonNegative ==
  IF waited = null THEN TRUE ELSE waited[1] >= 0

\* a call two days after both dates, which finds no wait left
C7_Witness ==
  /\ pc = "returned"
  /\ lastQuery # null
  /\ lastResponse # null
  /\ now > lastQuery[1] + 100000000
  /\ now > lastResponse[1] + 100000000
  /\ waited = <<0>>

ScenarioB ==
  /\ pc = "returned"
  /\ lastQuery # null
  /\ lastResponse = <<lastQuery[1] + 1000>>
  /\ now = lastQuery[1] + 1000 + 100000

\* C8 as amended: WAIT_TIME_MS is 300012 ms, and with a response dated
\* 1000 ms after the query and a call 100000 ms after the response the wait
\* is 200012 ms.
C8_ScenarioB ==
  /\ WAIT_TIME_MS = 300012
  /\ ScenarioB => waited = <<200012>>

C8_Witness ==
  /\ ScenarioB
  /\ waited = <<200012>>

\* C8 as stated: in that scenario the wait is 200080 ms.
C8_Original ==
  ScenarioB => waited = <<200080>>

\* C9: a run started on a db.json that cannot be parsed sleeps
\* MAX_QUERY_RECEPTION_DELAY_MS + WAIT_TIME_MS once, before any call of
\* waitBeforePoll, then finds no wait and sends with both dates null; a run
\* started on a missing or parsable db.json does not sleep so.
C9_CorruptStartup ==
  /\ event # "init" => (dbCorrupt <=> file.kind = "corrupt")
  /\ dbCorrupt => sleeps = <<MAX_QUERY_RECEPTION_DELAY_MS + WAIT_TIME_MS>>
  /\ pc = "corruptSleep" =>
       /\ dbCorrupt
       /\ waited = null
       /\ runSent = 0
       /\ lastQuery = null
       /\ lastResponse = null
       /\ wakeAt = bootAt + MAX_QUERY_RECEPTION_DELAY_MS + WAIT_TIME_MS
  /\ event = "corruptWake" =>
       /\ waited = <<0>>
       /\ runSent = 1
       /\ pc = "pending"
       /\ lastResponse = null
       /\ lastQuery = sentAt
       /\ sentAt[1] >= bootAt + MAX_QUERY_RECEPTION_DELAY_MS + WAIT_TIME_MS
  /\ (event # "init" /\ ~dbCorrupt) =>
       /\ sleeps = << >>
       /\ pc # "corruptSleep"
       /\ waited # null

\* the first query of a run started on a corrupt file, sent as the sleep ends
C9_Witness ==
  /\ event = "corruptWake"
  /\ dbCorrupt
  /\ sentAt = <<bootAt + MAX_QUERY_RECEPTION_DELAY_MS + WAIT_TIME_MS>>

\* C10: on a transport error main sets lastResponse to the date of the
\* error, starts the store of it, and waits for the next iteration; it
\* prints no status and keeps chargingStationStatus.
C10_TransportError ==
  [][(pc = "pending" /\ event' = "transportError") =>
       /\ lastResponse' = <<now'>>
       /\ lastQuery' = lastQuery
       /\ setDB(<<now'>>, lastQuery) \notin writes
       /\ writes' = writes \cup {setDB(<<now'>>, lastQuery)}
       /\ pc' = "sleeping"
       /\ waited' = <<WAIT_TIME_MS>>
       /\ notified' = notified
       /\ chargingStationStatus' = chargingStationStatus]_vars

\* a transport error after a status was printed
C10_Witness ==
  /\ event = "transportError"
  /\ pc = "sleeping"
  /\ notified # << >>
  /\ chargingStationStatus # null

\* C11: an error of axios.get that is not an axios error ends main: the step
\* that receives it leaves the response date untouched, starts no store and
\* sends nothing, and from then on this process changes neither date, sends
\* no query and starts no store (the stores in progress only end); only a
\* new start of the process leaves that state.
C11_OtherErrorEnds ==
  /\ [][(pc = "pending" /\ event' = "otherError")
          => /\ pc' = "terminated"
             /\ lastResponse' = lastResponse
             /\ lastQuery' = lastQuery
             /\ writes' = writes
             /\ queries' = queries
             /\ outcomeAt' = null]_vars
  /\ [][pc = "terminated"
          => /\ pc' \in {"terminated", "off"}
             /\ lastResponse' = lastResponse
             /\ lastQuery' = lastQuery
             /\ writes' \subseteq writes
             /\ queries' = queries]_vars

\* main has ended on such an error in its second iteration
C11_Witness ==
  /\ pc = "terminated"
  /\ event = "otherError"
  /\ runSent = 2
  /\ lastResponse # null
  /\ outcomeAt = null

\* main receives a response
ResponseStep == pc = "pending" /\ event' = "response"

\* the status that getStatus extracts from the response just received
StatusReceived == getStatus(received')

\* main prints the status and makes it the last observed one
Notifies ==
  /\ notified' = Append(notified, toLowerCase(StatusReceived[1]))
  /\ chargingStationStatus' = StatusReceived

\* main prints nothing and keeps the last observed status
StaysSilent ==
  /\ notified' = notified
  /\ chargingStationStatus' = chargingStationStatus

\* two notifications that follow one another in a run differ
NoRepeatedNotification ==
  \A i \in 1..(Len(notified) - 1) : notified[i] # notified[i + 1]

\* C12, as the code has it: after a response a notification is printed if
\* and only if the extracted status is a string, the empty string included,
\* that differs from the last observed status; the last observed status is
\* updated exactly then, and no two consecutive notifications of a run
\* carry the same status.
C12_NotifyOnChange ==
  /\ [][ResponseStep
          => IF /\ StatusReceived # null
                /\ StatusReceived # chargingStationStatus
             THEN Notifies
             ELSE StaysSilent]_vars
  /\ []NoRepeatedNotification

\* two responses of one run have been notified, the second after a change
C12_Witness ==
  /\ event = "response"
  /\ Len(notified) = 2
  /\ chargingStationStatus # null
  /\ getStatus(received) = chargingStationStatus

\* C12, as the specification words it: the notification is printed if and
\* only if the extracted status is a non-empty string that differs from the
\* last observed status.
C12_Original ==
  [][ResponseStep
      => IF /\ StatusReceived # null
            /\ StatusReceived # <<"">>
            /\ StatusReceived # chargingStationStatus
         THEN Notifies
         ELSE StaysSilent]_vars

\* C13: when main has ended on an error that is not an axios error and the
\* process is started again, db.json holds the date of the query that was in
\* flight and a response date that is absent or earlier, and the first wait
\* of the new run is the conservative one, counted from that query.
C13_RestartAfterOtherError ==
  [][(pc = "off" /\ event = "otherError" /\ event' = "boot")
      => /\ file.kind = "ok"
         /\ file.body.lastAPIQueryTime = sentAt
         /\ IF file.body.lastAPIResponseTime = null
            THEN TRUE
            ELSE file.body.lastAPIResponseTime[1] < sentAt[1]
         /\ waited' = <<necessaryTime(sentAt[1],
                          MAX_QUERY_RECEPTION_DELAY_MS + WAIT_TIME_MS, now')>>]_vars

\* a query of the running process is in flight, or has ended main
OutcomeNotRecorded == pc \in {"pending", "terminated"}

\* the running process has recorded the outcome of its last query
OutcomeRecorded == pc = "sleeping" /\ runSent >= 1

\* C14: while a query of the running process has been sent and its outcome
\* is not recorded, lastResponse is null or strictly earlier than
\* lastQuery; once the outcome of its most recent query is recorded,
\* lastResponse is that outcome's date and is not earlier than lastQuery.
C14_DateOrder ==
  /\ OutcomeNotRecorded
       => /\ lastQuery = sentAt
          /\ lastQuery # null
          /\ IF lastResponse = null
             THEN TRUE
             ELSE lastResponse[1] < lastQuery[1]
  /\ OutcomeRecorded
       => /\ lastQuery = sentAt
          /\ lastResponse = outcomeAt
          /\ lastResponse # null
          /\ lastResponse[1] >= lastQuery[1]

\* the second query of a run is in flight, after the outcome of the first
\* was recorded
C14_Witness ==
  /\ pc = "pending"
  /\ runSent = 2
  /\ lastResponse # null
  /\ lastResponse = prevOutcomeAt
  /\ lastResponse[1] < lastQuery[1]

\* a query is sent
SendStep == queries' = queries + 1

\* C15: lastQuery never decreases. The date recorded at a send is the
\* current date; it is not earlier than the date of any query sent before,
\* than the lastQuery the running process held, or than the lastQuery of the
\* well-formed db.json a starting process loads. Between sends a running
\* process leaves lastQuery alone, and a starting process that has to wait
\* holds the loaded one.
C15_QueryDateMonotone ==
  /\ [][SendStep
          => /\ lastQuery' = <<now'>>
             /\ IF sentAt = null THEN TRUE ELSE lastQuery'[1] >= sentAt[1]
             /\ IF pc # "off" /\ lastQuery # null
                THEN lastQuery'[1] >= lastQuery[1]
                ELSE TRUE
             /\ IF /\ pc = "off"
                   /\ file.kind = "ok"
                   /\ file.body.lastAPIQueryTime # null
                THEN lastQuery'[1] >= file.body.lastAPIQueryTime[1]
                ELSE TRUE]_vars
  /\ [][(~SendStep /\ pc # "off") => lastQuery' = lastQuery]_vars
  /\ [][(~SendStep /\ pc = "off" /\ pc' # "off" /\ file.kind = "ok")
          => lastQuery' = file.body.lastAPIQueryTime]_vars

\* a restarted process that loaded the date of the first query from db.json
\* has sent the second query, at a later date
C15_Witness ==
  /\ crashes = 1
  /\ pc = "pending"
  /\ runSent = 1
  /\ prevSentAt # null
  /\ file.kind = "ok"
  /\ file.body.lastAPIQueryTime = prevSentAt
  /\ lastQuery[1] > prevSentAt[1]

\* main records the outcome of the query in flight
OutcomeStep == pc = "pending" /\ event' \in {"response", "transportError"}

\* C16: an iteration that ends with a response or an axios error starts
\* exactly two stores. The one at the send carries the new lastQuery and the
\* lastResponse the process held (or loaded) before; the one at the outcome
\* carries the new lastResponse and the same lastQuery. A step that only
\* waits changes neither date and starts no store, so a run that has sent n
\* queries has started 2n stores, less one while the last is in flight.
C16_TwoStores ==
  /\ [](Cardinality(writes) =
          IF pc = "pending" THEN 2 * runSent - 1 ELSE 2 * runSent)
  /\ [][SendStep
          => /\ writes' = writes \cup {setDB(lastResponse', lastQuery')}
             /\ lastQuery' = <<now'>>
             /\ lastQuery' # lastQuery
             /\ pc # "off" => lastResponse' = lastResponse]_vars
  /\ [][OutcomeStep
          => /\ writes \subseteq writes'
             /\ setDB(<<now'>>, lastQuery) \in writes'
             /\ lastResponse' = <<now'>>
             /\ Cardinality(writes') = Cardinality(writes) + 1
             /\ lastQuery' = lastQuery]_vars
  /\ [][(~SendStep /\ ~OutcomeStep /\ pc # "off")
          => /\ writes' = writes
             /\ lastResponse' = lastResponse
             /\ lastQuery' = lastQuery]_vars

\* two iterations of a run have ended and have started four stores
C16_Witness ==
  /\ pc = "sleeping"
  /\ runSent = 2
  /\ Cardinality(writes) = 4
  /\ setDB(prevOutcomeAt, prevSentAt) \in writes
  /\ setDB(prevOutcomeAt, sentAt) \in writes
  /\ setDB(outcomeAt, sentAt) \in writes

\* C17: the iterations of a run are strictly sequential. A query is in
\* flight exactly while main is suspended on axios.get, so at most one is
\* outstanding; main leaves that suspension only by recording the outcome
\* and going to the schedule wait; and a query is sent only from a wait
\* that has run to its end, after the outcome of the query before it was
\* recorded (or, for the first query of a run, from the start of main when
\* no wait is due).
C17_Sequential ==
  /\ [](pc = "pending" <=> (runSent >= 1 /\ outcomeAt = null))
  /\ [][SendStep
          => /\ pc \in {"off", "corruptSleep", "sleeping"}
             /\ pc' = "pending"
             /\ waited' # null
             /\ pc = "off" => waited' = <<0>>
             /\ pc # "off" => now' >= wakeAt
             /\ runSent >= 1
                  => /\ pc = "sleeping"
                     /\ outcomeAt # null
                     /\ wakeAt = outcomeAt[1] + waited[1]]_vars
  /\ [][pc = "pending"
          => \/ pc' = "pending" /\ queries' = queries /\ event' = event
             \/ OutcomeStep /\ pc' = "sleeping" /\ outcomeAt' = <<now'>>
                            /\ queries' = queries]_vars
  /\ [][(pc \in {"corruptSleep", "sleeping"} /\ pc' # pc)
          => SendStep]_vars

\* the second query of a run has been sent by the timer of the wait that
\* followed the outcome of the first
C17_Witness ==
  /\ pc = "pending"
  /\ event = "wake"
  /\ runSent = 2
  /\ prevOutcomeAt # null
  /\ waited # null
  /\ sentAt[1] >= prevOutcomeAt[1] + waited[1]

\* C18: an axios error schedules the next query as a response received at
\* the same date does. Whichever of the two ends the query, the date of the
\* outcome becomes lastResponse, lastQuery and the store are those of a
\* response, and the wait is WAIT_TIME_MS counted from the outcome (the fast
\* path); the next query leaves when that timer fires.
C18_ErrorAsResponse ==
  /\ [][OutcomeStep
          => /\ lastResponse' = <<now'>>
             /\ lastQuery' = lastQuery
             /\ writes' = writes \cup {setDB(<<now'>>, lastQuery)}
             /\ pc' = "sleeping"
             /\ waited' = <<WAIT_TIME_MS>>
             /\ wakeAt' = now' + WAIT_TIME_MS]_vars
  /\ []((event = "wake" /\ runSent >= 2)
          => sentAt[1] - prevOutcomeAt[1] \in
               {WAIT_TIME_MS + late : late \in Lateness})

\* the second query of a run ended with an axios error at the date it was
\* sent, and main waits WAIT_TIME_MS from that date
C18_Witness ==
  /\ event = "transportError"
  /\ pc = "sleeping"
  /\ runSent = 2
  /\ outcomeAt = sentAt
  /\ wakeAt = outcomeAt[1] + WAIT_TIME_MS

\* a write in progress ends
WriteEnds == writes' # writes /\ writes' \subseteq writes /\ crashes' = crashes

\* C19: no write stops or blocks the loop, and a store that succeeds
\* leaves in db.json the pair of dates main held when it started it. In
\* the runs of SpecStore every write that ends has succeeded.
C19_StoreLeavesItsPair ==
  [][/\ \A w \in writes' \ writes : w = setDB(lastResponse', lastQuery')
     /\ WriteEnds
          => /\ UNCHANGED mainVars
             /\ \E w \in writes \ writes' : file' = File(w)]_vars

\* C20: in a run in which every axios.get settles with a response or an
\* axios error and every timer fires, each recorded outcome is eventually
\* followed by another query, whether the outcome was a response or one of
\* several axios errors in a row, and the sleep of a start on a db.json
\* that cannot be parsed is followed by the first query (as long as the
\* number of queries explored, MaxQueries, is not reached).
C20_AlwaysAnotherQuery ==
  /\ (OutcomeRecorded /\ queries < MaxQueries) ~> (pc = "pending")
  /\ (pc = "corruptSleep") ~> (pc = "pending")

\* a run started on a db.json that could not be parsed has sent its second
\* query, after an outcome of the first that printed nothing
C20_Witness ==
  /\ dbCorrupt
  /\ pc = "pending"
  /\ event = "wake"
  /\ runSent = 2
  /\ notified = << >>
  /\ received = NoEvse

\* a process is running and holds neither date
BothAbsent == pc # "off" /\ lastQuery = null /\ lastResponse = null

\* C21, as the code has it: a running process holds neither date only
\* before the first query of a run that found no record it could use. In
\* the states of the model that is the sleep of a start on a db.json that
\* cannot be parsed, whatever was sent before (a start on a missing file
\* sends at once); a start on a well-formed record holds its query date,
\* and a process that has sent a query holds the date of it.
C21_AbsentOnlyWithoutRecord ==
  /\ [](BothAbsent
          => /\ pc = "corruptSleep"
             /\ dbCorrupt
             /\ file = BadFile
             /\ runSent = 0)
  /\ []((pc # "off" /\ runSent >= 1) => lastQuery # null)
  /\ [][(pc = "off" /\ pc' # "off" /\ file.kind = "ok")
          => lastQuery' # null]_vars

\* a process started after a query was sent, on a db.json that cannot be
\* parsed, sleeps with neither date
C21_Witness ==
  /\ BothAbsent
  /\ queries >= 1
  /\ sentAt # null
  /\ pc = "corruptSleep"

\* C21, as the specification words it: once a query has been sent, in this
\* run or an earlier one, no running process holds neither date.
C21_Original == queries >= 1 => ~BothAbsent

\* the run was started without a db.json
FreshRun == file = NoFile /\ ~dbCorrupt /\ sleeps = << >>

\* C22: in a run without crashes started without a db.json the
\* conservative wait is never taken. The first schedule is computed with
\* no query date and is zero; every later one is computed when an outcome
\* has just been recorded, with lastResponse not earlier than lastQuery,
\* and is WAIT_TIME_MS counted from that outcome, so every query after the
\* first leaves WAIT_TIME_MS (plus the lateness of the timer) after the
\* outcome before it.
C22_NeverConservative ==
  /\ [][(file = NoFile /\ pc = "off" /\ pc' # "off")
          => /\ waited' = <<0>>
             /\ SendStep
             /\ sleeps' = << >>]_vars
  /\ [][(FreshRun /\ OutcomeStep)
          => /\ lastQuery' # null
             /\ lastResponse'[1] >= lastQuery'[1]
             /\ waited' = <<WAIT_TIME_MS>>
             /\ wakeAt' = lastResponse'[1] + WAIT_TIME_MS]_vars
  /\ []((FreshRun /\ pc # "off")
          => /\ waited \in {<<0>>, <<WAIT_TIME_MS>>}
             /\ waited = <<0>> => (runSent = 1 /\ pc = "pending")
             /\ (event = "wake" /\ runSent >= 2)
                  => sentAt[1] - prevOutcomeAt[1] \in
                       {WAIT_TIME_MS + late : late \in Lateness})

\* a run started without a db.json has recorded the outcome of its second
\* query and waits WAIT_TIME_MS from it
C22_Witness ==
  /\ FreshRun
  /\ pc = "sleeping"
  /\ runSent = 2
  /\ waited = <<WAIT_TIME_MS>>
  /\ wakeAt = lastResponse[1] + WAIT_TIME_MS
  /\ prevOutcomeAt # null

\* the first iteration of a run has ended and no write is in progress: its
\* two stores, the only ones the run has started, have both completed
FirstStoresDone ==
  /\ pc = "sleeping"
  /\ runSent = 1
  /\ outcomeAt # null
  /\ writes = {}

\* C23: the two stores of an iteration may complete in either order;
\* whichever completes last, db.json holds the query date of the iteration,
\* and a response date that is the outcome of the iteration, or an older one
\* that is null or earlier than the query date.
C23_EitherOrder ==
  FirstStoresDone
    => /\ file.kind = "ok"
       /\ file.body.lastAPIQueryTime = sentAt
       /\ \/ file.body.lastAPIResponseTime = outcomeAt
          \/ file.body.lastAPIResponseTime = null
          \/ IF file.body.lastAPIResponseTime = null
             THEN FALSE
             ELSE file.body.lastAPIResponseTime[1] < sentAt[1]

\* C24: the observed status is in no body that setDB writes and in no
\* record of db.json, and every start of the process sets it to null; it
\* stays null until a response carries a string status, and the first
\* response of a run that carries one is printed, whatever was printed
\* before the restart.
C24_StatusNotPersisted ==
  /\ [](/\ \A w \in writes :
              DOMAIN w = {"lastAPIResponseTime", "lastAPIQueryTime"}
        /\ DOMAIN file.body = {"lastAPIResponseTime", "lastAPIQueryTime"})
  /\ [][(pc = "off" /\ pc' # "off") => chargingStationStatus' = null]_vars
  /\ [][(pc # "off" /\ chargingStationStatus = null)
          => IF ResponseStep /\ StatusReceived # null
             THEN Notifies
             ELSE chargingStationStatus' = null /\ notified' = notified]_vars

\* a restarted process has printed the status the run before it had
\* printed last
C24_Witness ==
  /\ crashes = 1
  /\ event = "response"
  /\ runSent = 1
  /\ Len(notified) = 2
  /\ notified[1] = notified[2]

====
